---- MODULE Spec2Model ----
(***************************************************************************)
(* Digital Wellbeing Tracker (digital_wellbeing_app.py).                   *)
(*                                                                         *)
(* The program is a Streamlit script: every user interaction re-runs the   *)
(* whole script top to bottom against st.session_state.  One action of     *)
(* this model is one such run, triggered by one interaction; the sections  *)
(* of the script are operators applied in source order.                    *)
(*                                                                         *)
(* Units: datetimes are clock ticks (TicksPerSec per second); the stored   *)
(* "%Y-%m-%d %H:%M:%S" strings are whole seconds; duration_min is kept in  *)
(* hundredths of a minute (the code rounds to two decimals).               *)
(***************************************************************************)
EXTENDS Integers, Sequences, FiniteSets, TLC

\* ---------------------------------------------------------------- bounds
MaxRows == 3        \* rows the ledger may hold
MaxId == 2          \* uuid4 values drawn
MaxRuns == 5        \* interactions in one browser session
TicksPerSec == 2    \* sub-second resolution of datetime.now()

\* ------------------------------------------------------ program constants
SecPerMin == 60
SecPerDay == 86400
DefaultLimit == 240
NearNum == 8        \* 0.8 * daily_limit, as NearNum / NearDen
NearDen == 10

\* ------------------------------------------------------------ input sets
T0 == 32400                                   \* 09:00:00 of day 0, seconds
Instants == { T0 * TicksPerSec,
              T0 * TicksPerSec + 1,
              (T0 + 5 * SecPerMin) * TicksPerSec,
              (T0 + SecPerDay) * TicksPerSec }
At(sec) == sec * TicksPerSec                  \* a datetime on a whole second
\* what the user may enter in the "Add New Session" form
AddInputs ==
  { [start |-> At(T0), end |-> At(T0 + 24 * SecPerMin),
     app |-> "browser", category |-> "Social", notes |-> ""],
    [start |-> At(T0 + 24 * SecPerMin), end |-> At(T0 + 30 * SecPerMin),
     app |-> "", category |-> "Study", notes |-> "x"],
    [start |-> At(T0), end |-> At(T0),
     app |-> "browser", category |-> "Social", notes |-> ""],
    [start |-> At(T0 + 24 * SecPerMin), end |-> At(T0),
     app |-> "browser", category |-> "Social", notes |-> "x"] }
FocusChoices == {5, 25}
LimitChoices == {30, 240}
Dates == {0, 1}
ForeignId == 101
UnknownId == 999

\* ------------------------------------------------------------ data frames
SchemaCols == {"id", "start", "end", "app", "category", "notes", "duration_min"}
StrCols == {"app", "category", "notes"}
DtCols == {"start_dt", "end_dt"}

NaN == -1
NaNStr == "<NaN>"
NaT == <<"NaT", 0>>

Missing(c) == IF c \in StrCols THEN NaNStr ELSE IF c \in DtCols THEN NaT ELSE NaN

EmptyFrame == [cols |-> SchemaCols, rows |-> <<>>]

IsEmpty(df) == Len(df.rows) = 0

Reindex(r, cols) == [c \in cols |-> IF c \in DOMAIN r THEN r[c] ELSE Missing(c)]

Concat(a, b) ==
  LET cols == a.cols \cup b.cols
  IN [cols |-> cols,
      rows |-> [i \in 1..Len(a.rows) |-> Reindex(a.rows[i], cols)]
               \o [i \in 1..Len(b.rows) |-> Reindex(b.rows[i], cols)]]

ToDatetime(v) == IF v = NaN THEN NaT ELSE <<"dt", v>>

\* df[c] = pd.to_datetime(df[src]): the column is added to, or replaced in, df itself
SetDatetimeColumn(df, c, src) ==
  [cols |-> df.cols \cup {c},
   rows |-> [i \in 1..Len(df.rows) |->
              [k \in df.cols \cup {c} |->
                 IF k = c THEN ToDatetime(df.rows[i][src]) ELSE df.rows[i][k]]]]

DateOf(d) == IF d[1] = "dt" THEN d[2] \div SecPerDay ELSE NaN

\* ------------------------------------------------------------------- CSV
NoFile == [kind |-> "none", cols |-> {}, rows |-> <<>>]
Garbage == [kind |-> "garbage", cols |-> {}, rows |-> <<>>]

ToCsvCell(c, v) ==
  IF c \in StrCols THEN (IF v = NaNStr THEN "" ELSE v)
  ELSE IF c \in DtCols THEN (IF v[1] = "NaT" THEN <<"empty", 0>> ELSE <<"text", v[2]>>)
  ELSE v

ReadCsvCell(c, t) ==
  IF c \in StrCols THEN (IF t = "" THEN NaNStr ELSE t)
  ELSE IF c \in DtCols THEN (IF t[1] = "empty" THEN NaT ELSE t)
  ELSE t

export_csv(df) ==
  [kind |-> "csv", cols |-> df.cols,
   rows |-> [i \in 1..Len(df.rows) |-> [c \in df.cols |-> ToCsvCell(c, df.rows[i][c])]]]

read_csv(f) ==
  [cols |-> f.cols,
   rows |-> [i \in 1..Len(f.rows) |-> [c \in f.cols |-> ReadCsvCell(c, f.rows[i][c])]]]

\* --------------------------------------------------------------- helpers
strftime(t) == t \div TicksPerSec

\* round((end - start).total_seconds() / 60.0, 2), in hundredths of a minute
duration_minutes(start, end) ==
  (2 * 100 * (end - start) + SecPerMin) \div (2 * SecPerMin)

RECURSIVE SumDuration(_)
SumDuration(rows) ==
  IF rows = <<>> THEN 0
  ELSE (IF Head(rows)["duration_min"] = NaN THEN 0 ELSE Head(rows)["duration_min"])
       + SumDuration(Tail(rows))


add_session(s, start, end, app, category, notes) ==
  LET new == [id |-> s.nextId, start |-> start, end |-> end, app |-> app,
              category |-> category, notes |-> notes,
              duration_min |-> duration_minutes(start, end)]
  IN [s EXCEPT !.sessions = Concat(s.sessions, [cols |-> SchemaCols, rows |-> <<new>>]),
               !.nextId = @ + 1]

\* ------------------------------------------------- sections of the script
\* the validation comparing with < instead of <=
AddSessionSectionAcceptsEqual(s, ev) ==
  LET r == [s EXCEPT !.rendered = @ \cup {"add"}]
  IN IF ev.button = "add"
     THEN IF ev.end < ev.start
          THEN [r EXCEPT !.msgs = @ \cup {"add_error"}]
          ELSE [add_session(r, strftime(ev.start), strftime(ev.end),
                            ev.app, ev.category, ev.notes)
                  EXCEPT !.msgs = @ \cup {"add_success"}]
     ELSE r

AddSessionSection(s, ev) ==
  LET r == [s EXCEPT !.rendered = @ \cup {"add"}]
  IN IF ev.button = "add"
     THEN IF ev.end <= ev.start
          THEN [r EXCEPT !.msgs = @ \cup {"add_error"}]
          ELSE [add_session(r, strftime(ev.start), strftime(ev.end),
                            ev.app, ev.category, ev.notes)
                  EXCEPT !.msgs = @ \cup {"add_success"}]
     ELSE r

\* the stop handler recording the stop time as the start
LiveTimerSectionStartAtStop(s, ev, t) ==
  IF s.live_running
  THEN LET r == [s EXCEPT !.rendered = @ \cup {"live_stop"}]
       IN IF ev.button = "live_stop"
          THEN [add_session([r EXCEPT !.live_running = FALSE],
                            strftime(t), strftime(t),
                            ev.app, ev.category, "Live session")
                  EXCEPT !.msgs = @ \cup {"live_saved"}]
          ELSE [r EXCEPT !.msgs = @ \cup {"live_metric"}]
  ELSE LET r == [s EXCEPT !.rendered = @ \cup {"live_start"}]
       IN IF ev.button = "live_start"
          THEN [r EXCEPT !.live_running = TRUE, !.live_start = t,
                         !.msgs = @ \cup {"live_started", "live_metric"}]
          ELSE r

LiveTimerSection(s, ev, t) ==
  IF s.live_running
  THEN LET r == [s EXCEPT !.rendered = @ \cup {"live_stop"}]
       IN IF ev.button = "live_stop"
          THEN [add_session([r EXCEPT !.live_running = FALSE],
                            strftime(r.live_start), strftime(t),
                            ev.app, ev.category, "Live session")
                  EXCEPT !.msgs = @ \cup {"live_saved"}]
          ELSE [r EXCEPT !.msgs = @ \cup {"live_metric"}]
  ELSE LET r == [s EXCEPT !.rendered = @ \cup {"live_start"}]
       IN IF ev.button = "live_start"
          THEN [r EXCEPT !.live_running = TRUE, !.live_start = t,
                         !.msgs = @ \cup {"live_started", "live_metric"}]
          ELSE r

UsageAnalyticsSection(s) ==
  IF IsEmpty(s.sessions)
  THEN [s EXCEPT !.msgs = @ \cup {"no_sessions"}]
  ELSE [s EXCEPT !.sessions = SetDatetimeColumn(SetDatetimeColumn(@, "start_dt", "start"),
                                                   "end_dt", "end"),
                 !.rendered = @ \cup {"date_range"}]

\* min_date / max_date of a table whose timestamps are all missing
AnalyticsAborts(s) ==
  /\ ~IsEmpty(s.sessions)
  /\ \A i \in 1..Len(s.sessions.rows) : s.sessions.rows[i]["start"] = NaN

InRange(r, d0, d1) ==
  /\ DateOf(r["start_dt"]) # NaN /\ DateOf(r["start_dt"]) >= d0
  /\ DateOf(r["end_dt"]) # NaN /\ DateOf(r["end_dt"]) <= d1

View(df, d0, d1) == LET keep(r) == InRange(r, d0, d1) IN SelectSeq(df.rows, keep)

total_min(view) == SumDuration(view)

\* groupby(col)["duration_min"].sum(): one sum per key, rows whose key is NaN dropped
GroupBy(view, col) ==
  LET keys == {view[i][col] : i \in 1..Len(view)} \ {NaNStr}
  IN [k \in keys |-> LET keep(r) == r[col] = k IN SumDuration(SelectSeq(view, keep))]

by_app(view) == GroupBy(view, "app")
by_cat(view) == GroupBy(view, "category")

ImportSection(s, up) ==
  LET r == [s EXCEPT !.rendered = @ \cup {"uploader"}]
  IN IF up.kind = "none" THEN r
     ELSE IF up.kind = "garbage"
          THEN [r EXCEPT !.msgs = @ \cup {"import_failed"}]
          ELSE [r EXCEPT !.sessions = Concat(@, read_csv(up)),
                         !.msgs = @ \cup {"import_success"}]

\* the download button is offered in the run of the click; the file the user
\* keeps is "downloaded", and "exported" remembers the table it was made from
ExportSection(s, ev) ==
  LET r == [s EXCEPT !.rendered = @ \cup {"export"}]
  IN IF ev.button = "export"
     THEN IF IsEmpty(r.sessions)
          THEN [r EXCEPT !.msgs = @ \cup {"export_warning"}]
          ELSE [r EXCEPT !.downloaded = export_csv(r.sessions), !.exported = r.sessions]
     ELSE r

FocusButtons(s, ev, t) ==
  IF ~s.focus_running
  THEN LET r == [s EXCEPT !.rendered = @ \cup {"focus_start"}]
       IN IF ev.button = "focus_start"
          THEN [r EXCEPT !.focus_running = TRUE,
                         !.focus_end = t + ev.mins * SecPerMin * TicksPerSec,
                         !.msgs = @ \cup {"focus_started"}]
          ELSE r
  ELSE LET r == [s EXCEPT !.rendered = @ \cup {"focus_stop"}]
       IN IF ev.button = "focus_stop"
          THEN [r EXCEPT !.focus_running = FALSE, !.msgs = @ \cup {"focus_stopped"}]
          ELSE r

\* the countdown completing only once the target is strictly behind
FocusObserveStrict(s, t) ==
  IF s.focus_running
  THEN IF s.focus_end - t < 0
       THEN [s EXCEPT !.focus_running = FALSE, !.msgs = @ \cup {"focus_completed"}]
       ELSE [s EXCEPT !.msgs = @ \cup {"time_remaining"}]
  ELSE s

FocusObserve(s, t) ==
  IF s.focus_running
  THEN IF s.focus_end - t <= 0
       THEN [s EXCEPT !.focus_running = FALSE, !.msgs = @ \cup {"focus_completed"}]
       ELSE [s EXCEPT !.msgs = @ \cup {"time_remaining"}]
  ELSE s

FocusTimerSection(s, ev, t) == FocusObserve(FocusButtons(s, ev, t), t)

Today(t) == strftime(t) \div SecPerDay

today_total(df, t) ==
  LET keep(r) == DateOf(r["start_dt"]) = Today(t) IN SumDuration(SelectSeq(df.rows, keep))

\* the 80% threshold compared with > instead of >=
ClassifyStrictNear(total, limit) ==
  IF total >= 100 * limit THEN "over"
  ELSE IF NearDen * total > NearNum * 100 * limit THEN "near"
  ELSE "under"

\* today_total >= daily_limit / today_total >= 0.8 * daily_limit, minutes in hundredths
Classify(total, limit) ==
  IF total >= 100 * limit THEN "over"
  ELSE IF NearDen * total >= NearNum * 100 * limit THEN "near"
  ELSE "under"

DailyLimitSection(s, ev, t) ==
  LET r == [s EXCEPT !.daily_limit = IF ev.button = "limit" THEN ev.limit ELSE @,
                     !.rendered = @ \cup {"limit"}]
  IN IF IsEmpty(r.sessions) THEN r
     ELSE LET df == SetDatetimeColumn(r.sessions, "start_dt", "start")
              level == Classify(today_total(df, t), r.daily_limit)
          IN [r EXCEPT !.sessions = df,
                       !.msgs = @ \cup (IF level = "over" THEN {"limit_over"}
                                        ELSE IF level = "near" THEN {"limit_near"}
                                        ELSE {})]

DeleteRows(df, sid) ==
  LET keep(r) == r["id"] # sid IN [cols |-> df.cols, rows |-> SelectSeq(df.rows, keep)]

SessionsTableSection(s, ev) ==
  IF IsEmpty(s.sessions)
  THEN [s EXCEPT !.msgs = @ \cup {"no_sessions_table"}]
  ELSE LET r == [s EXCEPT !.rendered = @ \cup {"delete"}]
       IN IF ev.button = "delete"
          THEN IF ev.delete_id # 0
               THEN [r EXCEPT !.sessions = DeleteRows(@, ev.delete_id),
                              !.msgs = @ \cup {"deleted"}]
               ELSE [r EXCEPT !.msgs = @ \cup {"delete_warning"}]
          ELSE r

\* ------------------------------------------------------- files to upload
ForeignRow(start, end, app) ==
  [id |-> ForeignId, start |-> start, end |-> end, app |-> app, category |-> "Other",
   notes |-> "n", duration_min |-> duration_minutes(start, end)]

FileZero == [kind |-> "csv", cols |-> SchemaCols, rows |-> <<ForeignRow(T0, T0, "mail")>>]
FileNoApp == [kind |-> "csv", cols |-> SchemaCols,
              rows |-> <<ForeignRow(T0, T0 + 10 * SecPerMin, "")>>]
FileCols == [kind |-> "csv", cols |-> {"foo"}, rows |-> <<[foo |-> 1]>>]
ForeignFiles == {Garbage, FileCols, FileZero, FileNoApp}

\* ----------------------------------------------------------------- state
VARIABLES sessions, live_running, live_start, focus_running, focus_end,
          daily_limit, nextId, uploaded, downloaded, exported, now, rendered, msgs,
          last, runs

vars == <<sessions, live_running, live_start, focus_running, focus_end,
          daily_limit, nextId, uploaded, downloaded, exported, now, rendered, msgs,
          last, runs>>

NoEvent == [button |-> "none", start |-> 0, end |-> 0, app |-> "", category |-> "",
            notes |-> "", delete_id |-> 0, mins |-> 0, limit |-> 0]

\* st.session_state of a new session, before the script has run
FreshState ==
  [sessions |-> EmptyFrame, live_running |-> FALSE, live_start |-> 0,
   focus_running |-> FALSE, focus_end |-> 0, daily_limit |-> DefaultLimit,
   nextId |-> 1, downloaded |-> NoFile, exported |-> EmptyFrame, msgs |-> {},
   rendered |-> {}]

\* one run of the script: the sections in source order.  "before"/"after" are
\* the ledger around the handler of the pressed button, "analytics_df" the table
\* the analytics read, "import_in"/"import_out" the ledger around the import
\* handler when the uploader holds a file.
Script(s0, ev, t, up, crash) ==
  LET s1 == AddSessionSection(s0, ev)
      s2 == LiveTimerSection(s1, ev, t)
      s3 == UsageAnalyticsSection(s2)
      s4 == ImportSection(s3, up)
      s5 == ExportSection(s4, ev)
      s6 == FocusTimerSection(s5, ev, t)
      s7 == DailyLimitSection(s6, ev, t)
      s8 == SessionsTableSection(s7, ev)
      aborted == crash /\ AnalyticsAborts(s3)
      imported == ~aborted /\ up # NoFile
      deleting == ~aborted /\ ev.button = "delete"
  IN [final |-> IF aborted THEN s3 ELSE s8,
      peak |-> IF aborted THEN Len(s3.sessions.rows) ELSE Len(s4.sessions.rows),
      last |-> [ev |-> ev, aborted |-> aborted, now |-> t,
                analytics_df |-> s3.sessions,
                before |-> IF ev.button = "add" THEN s0.sessions
                           ELSE IF ev.button \in {"live_start", "live_stop"} THEN s1.sessions
                           ELSE IF deleting THEN s7.sessions
                           ELSE EmptyFrame,
                after |-> IF ev.button = "add" THEN s1.sessions
                          ELSE IF ev.button \in {"live_start", "live_stop"} THEN s2.sessions
                          ELSE IF deleting THEN s8.sessions
                          ELSE EmptyFrame,
                import_file |-> IF imported THEN up ELSE NoFile,
                import_in |-> IF imported THEN s3.sessions ELSE EmptyFrame,
                import_out |-> IF imported THEN s4.sessions ELSE EmptyFrame]]

Commit(run, up) ==
  /\ sessions' = run.final.sessions
  /\ live_running' = run.final.live_running
  /\ live_start' = run.final.live_start
  /\ focus_running' = run.final.focus_running
  /\ focus_end' = run.final.focus_end
  /\ daily_limit' = run.final.daily_limit
  /\ nextId' = run.final.nextId
  /\ downloaded' = run.final.downloaded
  /\ exported' = run.final.exported
  /\ rendered' = run.final.rendered
  /\ msgs' = run.final.msgs
  /\ uploaded' = up
  /\ now' = now
  /\ last' = run.last
  /\ runs' = runs + 1

Current ==
  [sessions |-> sessions, live_running |-> live_running, live_start |-> live_start,
   focus_running |-> focus_running, focus_end |-> focus_end, daily_limit |-> daily_limit,
   nextId |-> nextId, downloaded |-> downloaded, exported |-> exported, msgs |-> {},
   rendered |-> {}]

\* a rerun triggered by the interaction ev, with the uploader holding up
Rerun(ev, up) ==
  \E crash \in BOOLEAN :
    \E run \in {Script(Current, ev, now, up, crash)} :
       /\ runs < MaxRuns
       /\ crash = run.last.aborted
       /\ run.peak <= MaxRows
       /\ run.final.nextId <= MaxId + 1
       /\ Commit(run, up)

Init ==
  \E run \in {Script(FreshState, NoEvent, T0 * TicksPerSec, NoFile, FALSE)} :
     /\ sessions = run.final.sessions
     /\ live_running = run.final.live_running
     /\ live_start = run.final.live_start
     /\ focus_running = run.final.focus_running
     /\ focus_end = run.final.focus_end
     /\ daily_limit = run.final.daily_limit
     /\ nextId = run.final.nextId
     /\ downloaded = run.final.downloaded
     /\ exported = run.final.exported
     /\ rendered = run.final.rendered
     /\ msgs = run.final.msgs
     /\ uploaded = NoFile
     /\ now = T0 * TicksPerSec
     /\ last = run.last
     /\ runs = 0

\* ---------------------------------------------------------- interactions
ClickAddSession ==
  /\ "add" \in rendered
  /\ \E inp \in AddInputs :
       Rerun([NoEvent EXCEPT !.button = "add", !.start = inp.start, !.end = inp.end,
                             !.app = inp.app, !.category = inp.category,
                             !.notes = inp.notes], uploaded)

ClickStartLive ==
  /\ "live_start" \in rendered
  /\ Rerun([NoEvent EXCEPT !.button = "live_start"], uploaded)

ClickStopLive ==
  /\ "live_stop" \in rendered
  /\ Rerun([NoEvent EXCEPT !.button = "live_stop", !.app = "Reading",
                           !.category = "Study"], uploaded)

UploadFile ==
  /\ "uploader" \in rendered
  /\ uploaded = NoFile
  /\ \E f \in (ForeignFiles \cup {downloaded}) \ {NoFile} : Rerun(NoEvent, f)

RemoveFile ==
  /\ "uploader" \in rendered
  /\ uploaded # NoFile
  /\ Rerun(NoEvent, NoFile)

ClickExport ==
  /\ "export" \in rendered
  /\ Rerun([NoEvent EXCEPT !.button = "export"], uploaded)

ClickStartFocus ==
  /\ "focus_start" \in rendered
  /\ \E m \in FocusChoices : Rerun([NoEvent EXCEPT !.button = "focus_start", !.mins = m], uploaded)

ClickStopFocus ==
  /\ "focus_stop" \in rendered
  /\ Rerun([NoEvent EXCEPT !.button = "focus_stop"], uploaded)

SetDailyLimit ==
  /\ "limit" \in rendered
  /\ \E l \in LimitChoices : Rerun([NoEvent EXCEPT !.button = "limit", !.limit = l], uploaded)

ClickDelete ==
  /\ "delete" \in rendered
  /\ \E d \in ({sessions.rows[i]["id"] : i \in 1..Len(sessions.rows)} \ {NaN})
               \cup {UnknownId, 0} :
       Rerun([NoEvent EXCEPT !.button = "delete", !.delete_id = d], uploaded)

\* any other widget change (a text field, the date range): a rerun with no button pressed
OtherInteraction == Rerun(NoEvent, uploaded)

\* the clock moves on between two interactions
Tick ==
  /\ \E t \in Instants : t > now /\ now' = t
  /\ UNCHANGED <<sessions, live_running, live_start, focus_running, focus_end, daily_limit,
                 nextId, uploaded, downloaded, exported, rendered, msgs, last, runs>>

Next ==
  \/ Tick
  \/ ClickAddSession
  \/ ClickStartLive
  \/ ClickStopLive
  \/ UploadFile
  \/ RemoveFile
  \/ ClickExport
  \/ ClickStartFocus
  \/ ClickStopFocus
  \/ SetDailyLimit
  \/ ClickDelete
  \/ OtherInteraction

Spec == Init /\ [][Next]_vars

\* The same program with the user keeping to some of the widgets of the page:
\* every behaviour of these is a behaviour of Spec.
NextLedger ==
  \/ ClickAddSession
  \/ ClickDelete
  \/ UploadFile
  \/ RemoveFile
  \/ ClickExport
  \/ OtherInteraction

SpecLedger == Init /\ [][NextLedger]_vars

NextLive ==
  \/ Tick
  \/ ClickAddSession
  \/ ClickStartLive
  \/ ClickStopLive
  \/ OtherInteraction

SpecLive == Init /\ [][NextLive]_vars

NextFocus ==
  \/ Tick
  \/ ClickAddSession
  \/ ClickStartFocus
  \/ ClickStopFocus
  \/ OtherInteraction

SpecFocus == Init /\ [][NextFocus]_vars

NextLimit ==
  \/ Tick
  \/ ClickAddSession
  \/ SetDailyLimit
  \/ ClickDelete
  \/ OtherInteraction

SpecLimit == Init /\ [][NextLimit]_vars

\* ================================================================ claims
Rows(df) == df.rows
Ids(df) == {Rows(df)[i]["id"] : i \in 1..Len(Rows(df))}

\* two tables with the same columns and the same records, in order
SameFrame(a, b) ==
  /\ a.cols = b.cols
  /\ Len(a.rows) = Len(b.rows)
  /\ \A i \in 1..Len(a.rows) : \A c \in a.cols : a.rows[i][c] = b.rows[i][c]

\* b is a with exactly one record appended at the end
OneAppended(a, b) ==
  /\ Len(Rows(b)) = Len(Rows(a)) + 1
  /\ \A i \in 1..Len(Rows(a)) : \A c \in SchemaCols : Rows(b)[i][c] = Rows(a)[i][c]

\* b is a without its k-th record, the others kept in order
OneRemoved(a, b, k) ==
  /\ Len(Rows(b)) = Len(Rows(a)) - 1
  /\ \A i \in 1..Len(Rows(b)) :
       \A c \in a.cols : Rows(b)[i][c] = Rows(a)[IF i < k THEN i ELSE i + 1][c]

RECURSIVE SumOver(_, _)
SumOver(f, keys) ==
  IF keys = {} THEN 0
  ELSE LET k == CHOOSE x \in keys : TRUE IN f[k] + SumOver(f, keys \ {k})

SumOf(f) == SumOver(f, DOMAIN f)

\* C1: every record in the ledger has an end timestamp strictly after its start
\* timestamp, whatever operations produced it.
C1_EndAfterStart ==
  \A i \in 1..Len(Rows(sessions)) :
    LET r == Rows(sessions)[i]
    IN (r["start"] # NaN /\ r["end"] # NaN) => r["end"] > r["start"]

\* C2: no two records in the ledger share an identifier.
C2_IdentifiersUnique ==
  \A i, j \in 1..Len(Rows(sessions)) :
    (i # j /\ Rows(sessions)[i]["id"] # NaN) => Rows(sessions)[i]["id"] # Rows(sessions)[j]["id"]

\* C3: a delete of a present identifier removes exactly that one record and keeps
\* the others in order; a delete of an absent identifier leaves the ledger as it was.
C3_DeleteExactlyOne ==
  (last.ev.button = "delete" /\ last.ev.delete_id # 0 /\ ~last.aborted) =>
    LET hits == {i \in 1..Len(Rows(last.before)) :
                   Rows(last.before)[i]["id"] = last.ev.delete_id}
    IN IF hits = {} THEN SameFrame(last.after, last.before)
       ELSE \E k \in hits : OneRemoved(last.before, last.after, k)

\* C4: a manual add with end <= start shows the validation error and leaves the
\* ledger as it was; with end > start exactly one record, holding the entered
\* values, is appended at the end.
C4_ManualAddValidated ==
  last.ev.button = "add" =>
    IF last.ev.end <= last.ev.start
    THEN /\ "add_error" \in msgs
         /\ "add_success" \notin msgs
         /\ SameFrame(last.after, last.before)
    ELSE /\ "add_success" \in msgs
         /\ "add_error" \notin msgs
         /\ OneAppended(last.before, last.after)
         /\ LET new == Rows(last.after)[Len(Rows(last.after))]
            IN /\ new["start"] * TicksPerSec = last.ev.start
               /\ new["end"] * TicksPerSec = last.ev.end
               /\ new["app"] = last.ev.app
               /\ new["category"] = last.ev.category
               /\ new["notes"] = last.ev.notes
               /\ new["id"] \notin Ids(last.before)

C4_RejectedOnNonEmptyLedger ==
  /\ last.ev.button = "add"
  /\ last.ev.end <= last.ev.start
  /\ "add_error" \in msgs
  /\ Len(Rows(last.before)) > 0

\* C5: an import that cannot be parsed, or whose columns are not the record
\* schema, reports an error and leaves the ledger as it was.
Malformed(f) == f.kind = "garbage" \/ ~(SchemaCols \subseteq f.cols)

C5_MalformedImportRejected ==
  (last.import_file # NoFile /\ Malformed(last.import_file)) =>
    /\ "import_failed" \in msgs
    /\ "import_success" \notin msgs
    /\ SameFrame(last.import_out, last.import_in)

\* C6: over every date range, the per-activity sums and the per-category sums
\* both add up to the total of the range.
C6_AggregatesAgree ==
  \A d0 \in Dates, d1 \in Dates :
    LET view == View(last.analytics_df, d0, d1)
    IN (~IsEmpty(last.analytics_df)) =>
         /\ SumOf(by_app(view)) = total_min(view)
         /\ SumOf(by_cat(view)) = total_min(view)

\* C7: importing an exported file into an empty ledger gives back the exported
\* ledger: same fields, same number of records, same values.
C7_RoundTrip ==
  (last.import_file # NoFile /\ last.import_file = downloaded /\ IsEmpty(last.import_in)) =>
    SameFrame(last.import_out, exported)

\* C8: after a run, the alert shown is "over" exactly when today's total is at
\* least the limit, "near" exactly when it is at least 80% of the limit and below
\* the limit, and none ("under") otherwise.
LimitLedger == IF last.ev.button = "delete" THEN last.before ELSE sessions

TodaysMinutes ==
  LET today == (last.now \div TicksPerSec) \div SecPerDay
      mine(r) == r["start"] # NaN /\ r["start"] \div SecPerDay = today
  IN SumDuration(SelectSeq(Rows(LimitLedger), mine))

C8_LimitClassification ==
  (~last.aborted) =>
    /\ "limit_over" \in msgs <=> TodaysMinutes >= 100 * daily_limit
    /\ "limit_near" \in msgs <=> /\ 5 * TodaysMinutes >= 4 * 100 * daily_limit
                                 /\ TodaysMinutes < 100 * daily_limit

C8_NearShown == "limit_near" \in msgs /\ Len(Rows(sessions)) > 0 /\ ~last.aborted

\* C9: a press of Start while idle captures the current time, sets running and
\* leaves the ledger alone; a press of Stop while running appends exactly one
\* record that starts at the captured time and carries the supplied activity and
\* category, and sets idle; no other press changes the live timer.
C9_LiveTimerMachine ==
  [][runs' = runs + 1 =>
       LET b == last'.ev.button
       IN /\ (b = "live_start" /\ ~live_running) =>
               /\ live_running' /\ live_start' = now'
               /\ SameFrame(last'.after, sessions)
          /\ (b = "live_stop" /\ live_running) =>
               /\ ~live_running'
               /\ OneAppended(sessions, last'.after)
               /\ LET new == Rows(last'.after)[Len(Rows(last'.after))]
                  IN /\ new["start"] = live_start \div TicksPerSec
                     /\ new["end"] = now' \div TicksPerSec
                     /\ new["app"] = last'.ev.app
                     /\ new["category"] = last'.ev.category
          /\ (b = "live_start" /\ live_running) =>
               /\ live_running' /\ live_start' = live_start
               /\ SameFrame(last'.after, sessions)
          /\ (b = "live_stop" /\ ~live_running) =>
               /\ ~live_running'
               /\ SameFrame(last'.after, sessions)
          /\ (b \notin {"live_start", "live_stop"}) =>
               live_running' = live_running /\ live_start' = live_start]_vars

C9_StoppedOntoNonEmptyLedger ==
  /\ last.ev.button = "live_stop"
  /\ "live_saved" \in msgs
  /\ ~live_running
  /\ Len(Rows(last.before)) > 0
  /\ Rows(last.after)[Len(Rows(last.after))]["end"]
       > Rows(last.after)[Len(Rows(last.after))]["start"]

\* C10: when a run reaches the countdown with the focus timer running and the
\* target time reached, the timer goes idle and completion is signalled; before
\* the target it stays running; a press of Stop sets idle and signals no
\* completion, nor does any run that finds the timer idle; no focus press changes
\* the ledger.
C10_FocusTimerMachine ==
  [][runs' = runs + 1 =>
       LET b == last'.ev.button
           started == b = "focus_start" /\ ~focus_running
           stopped == b = "focus_stop" /\ focus_running
           observed == (focus_running \/ started) /\ ~stopped
           target == IF started
                     THEN now' + last'.ev.mins * SecPerMin * TicksPerSec
                     ELSE focus_end
       IN /\ stopped => ~focus_running' /\ "focus_completed" \notin msgs'
          /\ (observed /\ now' >= target) =>
               ~focus_running' /\ "focus_completed" \in msgs'
          /\ (observed /\ now' < target) =>
               focus_running' /\ focus_end' = target /\ "focus_completed" \notin msgs'
          /\ (~observed) => ~focus_running' /\ "focus_completed" \notin msgs'
          /\ (b \in {"focus_start", "focus_stop"}) => SameFrame(sessions', sessions)]_vars

C10_CompletedWithRecords ==
  /\ "focus_completed" \in msgs
  /\ ~focus_running
  /\ Len(Rows(sessions)) > 0

====
